---- MODULE Spec2Model ----
(***************************************************************************)
(* Model of drivers/pwm/pwm-protean-logger.c: a six channel PWM chip       *)
(* behind an I2C regmap.  The chip's pwm_ops (config, capture, enable,     *)
(* disable, set_polarity) and the i2c driver's probe/remove are the        *)
(* actions; the regmap core and the bus are the collaborators they call.   *)
(***************************************************************************)
EXTENDS Integers, Sequences, FiniteSets

VARIABLES attached, mode, hw, call, codec

vars == <<attached, mode, hw, call, codec>>

(***************************************************************************)
(* Preprocessor constants and the mode enum.                               *)
(***************************************************************************)
PRO_DEV_MAX_REG == 12
PRO_DEV_MAX_CHANNELS == 6
PRO_DEV_REG_MODE == 0
PRO_DEV_REG_CH1 == 1
PRO_NS_SEC == 1000000000
PRO_MODE_MEASURE == 0
PRO_MODE_GEN == 1
denom == 125

(***************************************************************************)
(* Bounds of the model.                                                    *)
(*   MaxChannel  largest dev->hwpwm handed to an op (hwpwm 0xFFFFFFFF is   *)
(*               written -1: PRO_DEV_REG_CH1 + hwpwm wraps to 0)           *)
(*   MaxDutyLow  the codec is run on every duty_ns in 0..MaxDutyLow        *)
(*   Window      and on every duty_ns within Window of the first duty_ns   *)
(*               whose encoding no longer fits the register                *)
(***************************************************************************)
MaxChannel == 12
MaxDutyLow == 39000
Window == 13000

Channels == (0 - 1)..MaxChannel
Regs == 0..PRO_DEV_MAX_REG
DutySamples == {0, 40000, 3276874, 3276875}
PeriodSamples == {20000000}
Polarities == {"PWM_POLARITY_NORMAL", "PWM_POLARITY_INVERSED"}
\* values the device may hold in a register the driver has not written
RegSamples == {100, 255}
\* contents of the uninitialised stack slot `int duty_arb` of measure_channel
StackGarbage == {1, 1000}
CodecInputs == (0..MaxDutyLow) \cup ((3276875 - Window)..(3276875 + Window))

(***************************************************************************)
(* Integer helpers for the C shifts.                                       *)
(***************************************************************************)
shr10(x) == x \div 1024
shl10(x) == x * 1024

(***************************************************************************)
(* Access tables handed to the regmap.                                     *)
(***************************************************************************)
read_ranges_mut == << [range_min |-> 1, range_max |-> 7],
                      [range_min |-> 10, range_max |-> 10],
                      [range_min |-> 12, range_max |-> 12] >>

read_ranges == << [range_min |-> 1, range_max |-> 6],
                  [range_min |-> 10, range_max |-> 10],
                  [range_min |-> 12, range_max |-> 12] >>

write_ranges == << [range_min |-> 0, range_max |-> 6],
                   [range_min |-> 11, range_max |-> 11] >>

read_table == [yes_ranges |-> read_ranges, no_ranges |-> write_ranges]

write_table == [yes_ranges |-> write_ranges, no_ranges |-> read_ranges]

config == [max_register |-> PRO_DEV_MAX_REG,
           wr_table |-> write_table,
           rd_table |-> read_table]

(***************************************************************************)
(* regmap core (drivers/base/regmap): range tables are consulted "no"      *)
(* ranges first, then "yes" ranges; an access the table refuses returns    *)
(* -EIO without touching the bus.  REGCACHE_NONE: every permitted access   *)
(* is one bus transfer.                                                    *)
(***************************************************************************)
regmap_reg_in_ranges(reg, ranges) ==
    \E i \in 1..Len(ranges) : ranges[i].range_min <= reg /\ reg <= ranges[i].range_max

regmap_check_range_table(reg, table) ==
    IF regmap_reg_in_ranges(reg, table.no_ranges) THEN FALSE
    ELSE IF Len(table.yes_ranges) = 0 THEN TRUE
    ELSE regmap_reg_in_ranges(reg, table.yes_ranges)

regmap_writeable(reg) ==
    /\ reg <= config.max_register
    /\ regmap_check_range_table(reg, config.wr_table)

regmap_readable(reg) ==
    /\ reg <= config.max_register
    /\ regmap_check_range_table(reg, config.rd_table)

\* busok: whether the I2C transfer succeeds
regmap_write(h, reg, val, busok) ==
    IF ~regmap_writeable(reg)
    THEN [ret |-> "-EIO", bus |-> <<>>, hw |-> h]
    ELSE IF busok
    THEN [ret |-> "0",
          bus |-> << [dir |-> "W", reg |-> reg, val |-> val, ok |-> TRUE] >>,
          hw |-> [h EXCEPT ![reg] = val % 256]]
    ELSE [ret |-> "-EREMOTEIO",
          bus |-> << [dir |-> "W", reg |-> reg, val |-> val, ok |-> FALSE] >>,
          hw |-> h]

\* old: the caller's *val before the call, left alone unless the read succeeds
regmap_read(h, reg, old, busok) ==
    IF ~regmap_readable(reg)
    THEN [ret |-> "-EIO", bus |-> <<>>, val |-> old]
    ELSE IF busok
    THEN [ret |-> "0",
          bus |-> << [dir |-> "R", reg |-> reg, val |-> h[reg], ok |-> TRUE] >>,
          val |-> h[reg]]
    ELSE [ret |-> "-EREMOTEIO",
          bus |-> << [dir |-> "R", reg |-> reg, val |-> 0, ok |-> FALSE] >>,
          val |-> old]

(***************************************************************************)
(* Timing conversions of write_channel and measure_channel.                *)
(***************************************************************************)
encode(duty_ns) == shr10(10 * (duty_ns \div denom))

duty_out_of_range_mut(duty_arb) == duty_arb >= 255

duty_out_of_range(duty_arb) == duty_arb > 255

decode_mut(duty_arb) == shl10(duty_arb) * denom

decode(duty_arb) == (shl10(duty_arb) * denom) \div 10

measure_period_mut == PRO_NS_SEC \div 60

measure_period == PRO_NS_SEC \div 50

(***************************************************************************)
(* The record of the last operation: its arguments, the register address   *)
(* it computed (a set, empty when none was), the return value of the       *)
(* regmap call it made, the bus transfers it caused, what it returned and  *)
(* the pwm_capture it filled in.                                           *)
(***************************************************************************)
Call(op, hwpwm, duty_ns, reg, io_ret, bus, ret, result) ==
    [op |-> op, hwpwm |-> hwpwm, duty_ns |-> duty_ns, reg |-> reg,
     io_ret |-> io_ret, bus |-> bus, ret |-> ret, result |-> result]

CodecIdle == [pc |-> "idle", duty_ns |-> 0, duty_arb |-> 0, duty_cycle |-> 0]

Init ==
    /\ attached = TRUE
    /\ mode = PRO_MODE_MEASURE
    /\ \E v \in RegSamples :
         hw = [r \in Regs |-> IF r = PRO_DEV_REG_MODE THEN PRO_MODE_MEASURE ELSE v]
    /\ call = Call("probe", {}, {}, {}, <<>>, <<>>, "0", <<>>)
    /\ codec = CodecIdle

(***************************************************************************)
(* pwm_ops                                                                 *)
(***************************************************************************)
set_polarity_mut(hwpwm, polarity) ==
    /\ attached
    /\ call' = Call("set_polarity", {hwpwm}, {}, {}, <<>>, <<>>, "0", <<>>)
    /\ UNCHANGED <<attached, mode, hw, codec>>

set_polarity(hwpwm, polarity) ==
    /\ attached
    /\ call' = Call("set_polarity", {hwpwm}, {}, {}, <<>>, <<>>, "-EINVAL", <<>>)
    /\ UNCHANGED <<attached, mode, hw, codec>>

write_channel(hwpwm, duty_ns, period_ns, busok) ==
    /\ attached
    /\ LET duty_arb == encode(duty_ns)
           reg == PRO_DEV_REG_CH1 + hwpwm
           w == regmap_write(hw, reg, duty_arb, busok)
       IN  IF duty_out_of_range(duty_arb)
           THEN /\ call' = Call("config", {hwpwm}, {duty_ns}, {}, <<>>, <<>>, "-EINVAL", <<>>)
                /\ hw' = hw
           ELSE /\ call' = Call("config", {hwpwm}, {duty_ns}, {reg}, <<w.ret>>, w.bus, w.ret, <<>>)
                /\ hw' = w.hw
    /\ UNCHANGED <<attached, mode, codec>>

measure_channel(hwpwm, garbage, busok) ==
    /\ attached
    /\ LET reg == PRO_DEV_REG_CH1 + hwpwm
           r == regmap_read(hw, reg, garbage, busok)
           duty_arb == r.val
       IN  call' = Call("capture", {hwpwm}, {}, {reg}, <<r.ret>>, r.bus, "0",
                        << [duty_cycle |-> decode(duty_arb), period |-> measure_period] >>)
    /\ UNCHANGED <<attached, mode, hw, codec>>

enable_pwm_gen(hwpwm, busok) ==
    /\ attached
    /\ LET w == regmap_write(hw, PRO_DEV_REG_MODE, 1, busok)
       IN  /\ call' = Call("enable", {hwpwm}, {}, {PRO_DEV_REG_MODE}, <<w.ret>>, w.bus, w.ret, <<>>)
           /\ hw' = w.hw
    /\ UNCHANGED <<attached, mode, codec>>

\* the register write that is the body of disable_pwm_gen
disable_pwm_gen_write(busok) == regmap_write(hw, PRO_DEV_REG_MODE, 1, busok)

disable_pwm_gen(hwpwm, busok) ==
    /\ attached
    /\ LET w == disable_pwm_gen_write(busok)
       IN  /\ call' = Call("disable", {hwpwm}, {}, {PRO_DEV_REG_MODE}, <<w.ret>>, w.bus, "void", <<>>)
           /\ hw' = w.hw
    /\ UNCHANGED <<attached, mode, codec>>

(***************************************************************************)
(* i2c driver                                                              *)
(***************************************************************************)
\* ok: devm_kzalloc, devm_regmap_init_i2c and pwmchip_add all succeed
probe(ok) ==
    /\ ~attached
    /\ attached' = ok
    /\ mode' = PRO_MODE_MEASURE
    /\ call' = Call("probe", {}, {}, {}, <<>>, <<>>, IF ok THEN "0" ELSE "-ENOMEM", <<>>)
    /\ UNCHANGED <<hw, codec>>

\* busy: pwmchip_remove finds a requested pwm and returns -EBUSY
remove(busok, busy) ==
    /\ attached
    /\ LET w == disable_pwm_gen_write(busok)
       IN  /\ call' = Call("remove", {}, {}, {PRO_DEV_REG_MODE}, <<w.ret>>, w.bus,
                           IF busy THEN "-EBUSY" ELSE "0", <<>>)
           /\ hw' = w.hw
    /\ attached' = FALSE
    /\ UNCHANGED <<mode, codec>>

Next ==
    \/ \E ch \in Channels, pol \in Polarities : set_polarity(ch, pol)
    \/ \E ch \in Channels, d \in DutySamples, p \in PeriodSamples, ok \in BOOLEAN :
         write_channel(ch, d, p, ok)
    \/ \E ch \in Channels, g \in StackGarbage, ok \in BOOLEAN : measure_channel(ch, g, ok)
    \/ \E ch \in Channels, ok \in BOOLEAN : enable_pwm_gen(ch, ok)
    \/ \E ch \in Channels, ok \in BOOLEAN : disable_pwm_gen(ch, ok)
    \/ \E ok \in BOOLEAN : probe(ok)
    \/ \E ok \in BOOLEAN, busy \in BOOLEAN : remove(ok, busy)

Spec == Init /\ [][Next]_vars

(***************************************************************************)
(* The two conversions on their own: a duty_ns handed to config, the unit  *)
(* write_channel derives from it, and the duty_cycle measure_channel       *)
(* derives from that unit when it is read back.                            *)
(***************************************************************************)
InitCodec ==
    /\ attached = TRUE
    /\ mode = PRO_MODE_MEASURE
    /\ hw = [r \in Regs |-> 0]
    /\ call = Call("probe", {}, {}, {}, <<>>, <<>>, "0", <<>>)
    /\ \E d \in CodecInputs :
         codec = [pc |-> "config", duty_ns |-> d, duty_arb |-> 0, duty_cycle |-> 0]

encode_step ==
    /\ codec.pc = "config"
    /\ LET duty_arb == encode(codec.duty_ns)
       IN  codec' = [codec EXCEPT !.duty_arb = duty_arb,
                                  !.pc = IF duty_out_of_range(duty_arb)
                                         THEN "rejected" ELSE "written"]
    /\ UNCHANGED <<attached, mode, hw, call>>

decode_step ==
    /\ codec.pc = "written"
    /\ codec' = [codec EXCEPT !.duty_cycle = decode(codec.duty_arb), !.pc = "captured"]
    /\ UNCHANGED <<attached, mode, hw, call>>

NextCodec == encode_step \/ decode_step

SpecCodec == InitCodec /\ [][NextCodec]_vars

(***************************************************************************)
(* Properties                                                              *)
(***************************************************************************)
ValidChannels == 0..(PRO_DEV_MAX_CHANNELS - 1)

\* C1: disable, and remove through it, issues exactly one write to the mode
\* register; when the transfer succeeds it carried the measure code (0) and
\* the hardware mode register holds MEASURE; the tracked mode is MEASURE.
C1_DisableWritesMeasure ==
    (call.op \in {"disable", "remove"} /\ call.hwpwm \subseteq ValidChannels) =>
        /\ Len(call.bus) = 1
        /\ call.bus[1].dir = "W"
        /\ call.bus[1].reg = PRO_DEV_REG_MODE
        /\ call.bus[1].ok => /\ call.bus[1].val = PRO_MODE_MEASURE
                             /\ hw[PRO_DEV_REG_MODE] = PRO_MODE_MEASURE
        /\ mode = PRO_MODE_MEASURE

\* C2: enable issues exactly one write of the generate code (1) to the mode
\* register and, when it succeeds, the tracked mode is GENERATE.
C2_EnableTracksGenerate ==
    (call.op = "enable" /\ call.hwpwm \subseteq ValidChannels) =>
        /\ Len(call.bus) = 1
        /\ call.bus[1].dir = "W"
        /\ call.bus[1].reg = PRO_DEV_REG_MODE
        /\ call.bus[1].val = PRO_MODE_GEN
        /\ (call.ret = "0" => mode = PRO_MODE_GEN)

\* C3: on every valid channel a config with an in-range duty causes exactly
\* one bus write to 0x01 + channel, and a capture exactly one bus read of
\* 0x01 + channel.
C3_ChannelRegsReachBus ==
    /\ (/\ call.op = "config"
        /\ call.hwpwm \subseteq ValidChannels
        /\ \A d \in call.duty_ns : encode(d) <= 255)
       => /\ Len(call.bus) = 1
          /\ call.bus[1].dir = "W"
          /\ \A ch \in call.hwpwm : call.bus[1].reg = PRO_DEV_REG_CH1 + ch
    /\ (call.op = "capture" /\ call.hwpwm \subseteq ValidChannels)
       => /\ Len(call.bus) = 1
          /\ call.bus[1].dir = "R"
          /\ \A ch \in call.hwpwm : call.bus[1].reg = PRO_DEV_REG_CH1 + ch

\* C4 as stated: every config with duty_ns above 31,875 ns is rejected with
\* -EINVAL and causes no bus write.
C4_RejectsAbove31875 ==
    (call.op = "config" /\ \E d \in call.duty_ns : d > 31875) =>
        call.ret = "-EINVAL" /\ call.bus = <<>>

\* C4 amended: config returns -EINVAL exactly when the encoded duty exceeds
\* 255, which for duty_ns >= 0 is exactly duty_ns >= 3,276,875 ns; a rejected
\* config causes no bus write; any value config writes is encode(duty_ns) and
\* lies in [0, 255].
C4_RejectsUnrepresentable ==
    call.op = "config" =>
        \A d \in call.duty_ns :
            /\ (call.ret = "-EINVAL") <=> (encode(d) > 255)
            /\ (encode(d) > 255) <=> (d >= 26215 * 125)
            /\ (call.ret = "-EINVAL" => call.bus = <<>>)
            /\ \A i \in 1..Len(call.bus) :
                 /\ call.bus[i].val = encode(d)
                 /\ call.bus[i].val \in 0..255

C4_Witness ==
    /\ call.op = "config"
    /\ call.duty_ns = {26215 * 125}
    /\ call.ret = "-EINVAL"
    /\ call.bus = <<>>

\* C5: when the register read made by capture on a valid channel fails,
\* capture returns that error.
C5_CaptureReturnsReadError ==
    (call.op = "capture" /\ call.hwpwm \subseteq ValidChannels /\ call.io_ret # <<"0">>)
        => <<call.ret>> = call.io_ret

\* C6: config and capture on a channel outside [0, 6) fail before a register
\* address is computed and before any bus transfer.
C6_InvalidChannelRejected ==
    (call.op \in {"config", "capture"} /\ ~(call.hwpwm \subseteq ValidChannels)) =>
        /\ call.ret # "0"
        /\ call.reg = {}
        /\ call.bus = <<>>

\* C7: a read of an address in [0x00, 0x0C] outside the declared read ranges
\* {0x01-0x06}, {0x0A}, {0x0C} is refused and causes no bus read; a write to
\* an address outside the declared write ranges {0x00-0x06}, {0x0B} is
\* refused and causes no bus write.
C7_UndeclaredAccessRefused ==
    /\ (call.op = "capture" /\ call.reg \cap ((1..6) \cup {10, 12}) = {})
       => call.io_ret = <<"-EIO">> /\ call.bus = <<>>
    /\ (/\ call.op \in {"config", "enable", "disable", "remove"}
        /\ call.reg # {}
        /\ call.reg \cap ((0..6) \cup {11}) = {})
       => call.io_ret = <<"-EIO">> /\ call.bus = <<>>

C7_Witness ==
    /\ call.op = "capture"
    /\ call.reg = {7}
    /\ call.io_ret = <<"-EIO">>
    /\ call.bus = <<>>

\* C8: every set_polarity step fails, causes no bus transfer and leaves the
\* tracked mode, the hardware registers and the binding unchanged.
C8_SetPolarityFails ==
    [][call'.op = "set_polarity" =>
         /\ call'.ret # "0"
         /\ call'.bus = <<>>
         /\ UNCHANGED <<mode, hw, attached>>]_vars

C8_Witness ==
    /\ call.op = "set_polarity"
    /\ call.hwpwm = {3}
    /\ hw[PRO_DEV_REG_MODE] = PRO_MODE_GEN

\* C9: every capture on a valid channel reports period = 20,000,000 ns.
C9_CapturePeriodFixed ==
    (call.op = "capture" /\ call.hwpwm \subseteq ValidChannels) =>
        /\ Len(call.result) = 1
        /\ call.result[1].period = 20000000

C9_Witness ==
    /\ call.op = "capture"
    /\ call.hwpwm = {5}
    /\ hw[PRO_DEV_REG_MODE] = PRO_MODE_GEN
    /\ call.result[1].period = 20000000

\* C10 as stated: decode(encode(duty_ns)) is within 125 ns of duty_ns.
C10_RoundTripWithin125 ==
    codec.pc = "captured" =>
        /\ codec.duty_cycle - codec.duty_ns <= 125
        /\ codec.duty_ns - codec.duty_cycle <= 125

\* C10 amended: decode(encode(duty_ns)) never exceeds duty_ns and falls short
\* of it by at most 12,899 ns (one register unit of 12,800 ns plus the
\* truncation of the two integer divisions).
C10_RoundTripWithinUnit ==
    codec.pc = "captured" =>
        /\ codec.duty_cycle <= codec.duty_ns
        /\ codec.duty_ns - codec.duty_cycle <= 12899

C10_Witness ==
    /\ codec.pc = "captured"
    /\ codec.duty_arb = 2
    /\ codec.duty_ns - codec.duty_cycle = 12899

====
